---- MODULE Spec2Model ----
(***************************************************************************)
(* The asynchronous job subsystem of the tool registry:                    *)
(*   - JOB_STORE, the in-memory job map             (api/jobs.py)          *)
(*   - search_tools_post, the batch submit          (api/tools.py)         *)
(*   - _process_search_job, the background worker   (api/tools.py)         *)
(*   - clean_db / periodic_housekeeping             (api/jobs.py)          *)
(*   - get_job_status, the status read              (api/jobs.py)          *)
(*   - find_tool_sync / _iter_tool_data, the catalog lookup (api/tools.py) *)
(*   - get_tools_by_input_extension, the input query (api/tools.py)        *)
(*                                                                         *)
(* _process_search_job is a plain (non-async) function handed to           *)
(* BackgroundTasks, so it runs on a worker thread while the event loop     *)
(* keeps serving requests and the housekeeping task: each of its three     *)
(* store writes is a step of its own.  The async handlers and clean_db     *)
(* contain no await between their store accesses and are single steps.     *)
(* One server process is modelled: JOB_STORE is a module global, private   *)
(* to the process.                                                         *)
(***************************************************************************)
EXTENDS Integers, Sequences, FiniteSets, TLC

VARIABLES
    JOB_STORE,  \* jobs.py:8     job_id -> job dict
    tasks,      \* tools.py:112  job_id -> the background task of that job
    hk,         \* jobs.py:23-29 the periodic_housekeeping task
    now,        \* the value time.time() returns
    ticks,      \* how many times the clock has advanced
    catalog,    \* the *.json files of SUPPORTED_TOOLS_DIR
    returned,   \* job_id -> time at which search_tools_post returned it
    seen,       \* the last status response that said completed
    lookup      \* the last request to /input/{ext} and its response

vars == <<JOB_STORE, tasks, hk, now, ticks, catalog, returned, seen, lookup>>

-----------------------------------------------------------------------------
(* Bounds of the model *)

MaxJobs == 2
MaxTicks == 1
MaxExtLen == 3

(* Program constants *)

RetentionWindow == 3600
HousekeepingInterval == 60

\* the clock moves by a housekeeping interval (at most MaxTicks times) or,
\* once, by a whole retention window
TimeSteps == {HousekeepingInterval, RetentionWindow}

\* Python values: None, a list, the empty dict, no exception
None == [type |-> "NoneType"]
List(items) == [type |-> "list", items |-> items]
EmptyDict == << >>
NoError == ""

\* the two outcomes of a status read
Ok(job) == [code |-> "200", body |-> job]
NotFound == [code |-> "404", detail |-> "Job not found"]

\* no status read has said completed yet
NoRead == [job_id |-> 0, result |-> None]

JobIds == 1..MaxJobs

-----------------------------------------------------------------------------
(* Python dict helpers *)

\* d.get(k, default)
Get(d, k, default) == IF k \in DOMAIN d THEN d[k] ELSE default

\* d[k] = v on a dict (adds the key when it is missing)
SetItem(d, k, v) == [x \in DOMAIN d \cup {k} |-> IF x = k THEN v ELSE d[x]]

\* truthiness of a dict
Truthy(d) == DOMAIN d # {}

-----------------------------------------------------------------------------
(* The catalog: a directory of files, name -> content.  A content is       *)
(*   [kind |-> "invalid"]  unreadable, or not JSON: json.loads raises      *)
(*   [kind |-> "array"]    JSON, but not an object (a list, a number...)   *)
(*   [kind |-> "object", data |-> d]  a JSON object                        *)
(* A typeURI entry is [isdict |-> TRUE, d |-> dict] or                     *)
(* [isdict |-> FALSE, v |-> value].                                        *)

Plain(v) == [isdict |-> FALSE, v |-> v]
Entry(v) == [isdict |-> TRUE, d |-> [typeURI |-> v]]

ToolOne ==
    [kind |-> "object",
     data |-> [toolURI |-> "t1", typeURI |-> <<Plain("y1")>>,
               toolProperties |-> [toolLabel |-> "A", toolDescription |-> "B"]]]
ToolTwo ==
    [kind |-> "object",
     data |-> [toolURI |-> "t2", typeURI |-> <<Entry("y1"), Plain("y2")>>]]
ToolOneAgain ==
    [kind |-> "object",
     data |-> [toolURI |-> "t1", typeURI |-> <<Plain("y2")>>,
               toolProperties |-> [toolLabel |-> "Z"]]]

CatalogClean == (1 :> ToolOne) @@ (2 :> [kind |-> "invalid"]) @@ (4 :> ToolTwo)
                    @@ (5 :> ToolOneAgain)
CatalogWithArray == CatalogClean @@ (3 :> [kind |-> "array"])

Catalogs == {CatalogClean, CatalogWithArray}

\* sorted(base.glob("*.json")): the file names in increasing order
RECURSIVE SortedPaths(_)
SortedPaths(names) ==
    IF names = {} THEN << >>
    ELSE LET first == CHOOSE n \in names : \A m \in names : n <= m
         IN  <<first>> \o SortedPaths(names \ {first})

\* _iter_tool_data: the parsed files in sorted order; a file json.loads
\* raises on is skipped
RECURSIVE IterFrom(_, _)
IterFrom(cat, paths) ==
    IF paths = << >> THEN << >>
    ELSE IF cat[Head(paths)].kind = "invalid" THEN IterFrom(cat, Tail(paths))
         ELSE <<cat[Head(paths)]>> \o IterFrom(cat, Tail(paths))

\* mutant of iter_tool_data: the files are visited from the last name down
iter_tool_data_backwards(cat) ==
    LET paths == SortedPaths(DOMAIN cat) IN
    IterFrom(cat, [i \in 1..Len(paths) |-> paths[Len(paths) + 1 - i]])

iter_tool_data(cat) == IterFrom(cat, SortedPaths(DOMAIN cat))

\* ToolSummary(key, value, props).to_dict()
to_dict(key, value, props) ==
    (key :> value) @@ [toolLabel |-> Get(props, "toolLabel", ""),
                       toolDescription |-> Get(props, "toolDescription", "")]

\* d.get(k) == v for a string v: a missing key gives None, which equals none
GetEquals(d, k, v) == k \in DOMAIN d /\ d[k] = v

\* entry_val == match_value for one typeURI entry
entry_equals(entry, match_value) ==
    IF entry.isdict THEN GetEquals(entry.d, "typeURI", match_value)
    ELSE entry.v = match_value

\* does the record match (one pass of the loop body of find_tool_sync)
record_matches(data, match_type, match_value) ==
    IF match_type = "toolURI"
    THEN GetEquals(data, "toolURI", match_value)
    ELSE IF match_type = "typeURI"
         THEN \E i \in DOMAIN Get(data, "typeURI", << >>) :
                  entry_equals(Get(data, "typeURI", << >>)[i], match_value)
         ELSE FALSE

\* find_tool_sync over the records still to visit.  data.get on a parsed
\* value that is not a dict raises AttributeError.
RECURSIVE FindFrom(_, _, _)
FindFrom(recs, match_type, match_value) ==
    IF recs = << >> THEN [err |-> NoError, tool |-> EmptyDict]
    ELSE LET rec == Head(recs) IN
         IF match_type \notin {"toolURI", "typeURI"}
         THEN FindFrom(Tail(recs), match_type, match_value)
         ELSE IF rec.kind # "object"
         THEN [err |-> "AttributeError", tool |-> EmptyDict]
         ELSE IF record_matches(rec.data, match_type, match_value)
         THEN [err |-> NoError,
               tool |-> to_dict(match_type, match_value,
                                Get(rec.data, "toolProperties", EmptyDict))]
         ELSE FindFrom(Tail(recs), match_type, match_value)

find_tool_sync(cat, match_type, match_value) ==
    FindFrom(iter_tool_data(cat), match_type, match_value)

-----------------------------------------------------------------------------
(* get_tools_by_input_extension (tools.py:175-195).  An extension is a     *)
(* string, here a sequence of characters.  The fileTypes value of a record *)
(* is [isdict |-> TRUE, d |-> dict] or [isdict |-> FALSE]; so is each item *)
(* of its input list.                                                      *)

ExtChars == {".", "c", "s", "C", "S"}

\* the values the path parameter ext takes: the non-empty strings, without
\* those made of dots only (a client resolves the path segments "." and "..")
Exts == {s \in UNION {[1..n -> ExtChars] : n \in 1..MaxExtLen} :
            \E i \in DOMAIN s : s[i] # "."}

LowerChar(ch) ==
    CASE ch = "C" -> "c" [] ch = "S" -> "s" [] OTHER -> ch

\* str.lower()
lower(s) == [i \in DOMAIN s |-> LowerChar(s[i])]

\* str.lstrip('.'): every leading '.' is removed
RECURSIVE lstrip(_)
lstrip(s) == IF s # << >> /\ Head(s) = "." THEN lstrip(Tail(s)) ELSE s

\* (x or "").lower().lstrip('.')
norm_ext(s) == lstrip(lower(s))

Item(ext) == [isdict |-> TRUE, d |-> [extension |-> ext]]
NotADict == [isdict |-> FALSE]
Inputs(items) == [isdict |-> TRUE, d |-> [input |-> items]]

ToolCs ==
    [kind |-> "object",
     data |-> [toolURI |-> "t1",
               fileTypes |-> Inputs(<<Item(<<"c", "s">>),
                                      Item(<<".", "C", "S">>)>>),
               toolProperties |-> [toolLabel |-> "A", toolDescription |-> "B"]]]
ToolC ==
    [kind |-> "object",
     data |-> [toolURI |-> "t2",
               fileTypes |-> Inputs(<<NotADict, Item(<<"c">>)>>)]]
ToolNoUri ==
    [kind |-> "object",
     data |-> [fileTypes |-> Inputs(<<Item(<<"c", "s">>)>>)]]
ToolNoInputs ==
    [kind |-> "object", data |-> [toolURI |-> "t3", fileTypes |-> NotADict]]

InputCatalogClean ==
    (1 :> ToolCs) @@ (2 :> [kind |-> "invalid"]) @@ (3 :> ToolC)
        @@ (4 :> ToolNoUri) @@ (5 :> ToolNoInputs)
InputCatalogWithArray == InputCatalogClean @@ (6 :> [kind |-> "array"])

InputCatalogs == {InputCatalogClean, InputCatalogWithArray}

\* inputs = filetypes.get("input", []) if isinstance(filetypes, dict) else []
inputs_of(data) ==
    IF "fileTypes" \notin DOMAIN data THEN << >>
    ELSE IF data.fileTypes.isdict
         THEN Get(data.fileTypes.d, "input", << >>)
         ELSE << >>

\* item_ext of one declared input (line 188)
item_ext(item) ==
    IF item.isdict /\ "extension" \in DOMAIN item.d
    THEN norm_ext(item.d.extension)
    ELSE << >>

\* the inner loop (lines 187-193): what one record adds to matches.  The
\* append and the break happen at the first matching item, and only when
\* toolURI is truthy.
record_summaries(data, norm) ==
    IF /\ \E i \in DOMAIN inputs_of(data) : item_ext(inputs_of(data)[i]) = norm
       /\ "toolURI" \in DOMAIN data
       /\ data.toolURI # ""
    THEN <<to_dict("toolURI", data.toolURI,
                   Get(data, "toolProperties", EmptyDict))>>
    ELSE << >>

\* the outer loop (lines 184-194); data.get on a parsed value that is not
\* a dict raises AttributeError
RECURSIVE MatchesFrom(_, _)
MatchesFrom(recs, norm) ==
    IF recs = << >> THEN [err |-> NoError, matches |-> << >>]
    ELSE IF Head(recs).kind # "object"
         THEN [err |-> "AttributeError", matches |-> << >>]
         ELSE LET rest == MatchesFrom(Tail(recs), norm) IN
              IF rest.err # NoError THEN rest
              ELSE [err |-> NoError,
                    matches |-> record_summaries(Head(recs).data, norm)
                                    \o rest.matches]

\* no request to /input/{ext} was made yet
NoLookup == [asked |-> FALSE, ext |-> << >>, err |-> NoError, matches |-> << >>]

-----------------------------------------------------------------------------
(* The submitted payloads.  A payload is a dict in key order: a sequence   *)
(* of [key, values], the keys distinct.                                    *)

KV(k, vs) == [key |-> k, values |-> vs]

Payloads ==
    { <<KV("toolURI", <<"t1">>)>>,
      <<KV("toolURI", <<"tX">>)>>,
      <<KV("typeURI", <<"y2", "y1">>), KV("toolURI", <<"tX", "t1">>)>>,
      <<KV("toolURI", <<"t1">>), KV("bogus", <<"x">>)>>,
      <<KV("bogus", <<"x">>), KV("typeURI", <<"y1">>)>> }

Recognized == {"toolURI", "typeURI"}

-----------------------------------------------------------------------------
(* _process_search_job, lines 116-123: the scan.  It only reads the        *)
(* catalog and builds the local list `results`.                            *)

\* mutant of accumulate: the summary is put in front (results.insert(0, tool))
accumulate_front(results, tool) ==
    IF Truthy(tool) THEN <<tool>> \o results ELSE results

\* if tool: results.append(tool)
accumulate(results, tool) ==
    IF Truthy(tool) THEN Append(results, tool) ELSE results

\* for identifier in criteria[key]: ...
RECURSIVE ScanValues(_, _, _, _)
ScanValues(cat, key, vals, results) ==
    IF vals = << >> THEN [err |-> NoError, results |-> results]
    ELSE LET found == find_tool_sync(cat, key, Head(vals)) IN
         IF found.err # NoError THEN [err |-> found.err, results |-> results]
         ELSE ScanValues(cat, key, Tail(vals), accumulate(results, found.tool))

\* for key in criteria: ...
RECURSIVE ScanKeys(_, _, _)
ScanKeys(cat, criteria, results) ==
    IF criteria = << >> THEN [err |-> NoError, results |-> results]
    ELSE IF Head(criteria).key \notin Recognized
         THEN [err |-> "ValueError", results |-> results]
         ELSE LET inner == ScanValues(cat, Head(criteria).key,
                                      Head(criteria).values, results) IN
              IF inner.err # NoError THEN inner
              ELSE ScanKeys(cat, Tail(criteria), inner.results)

\* mutant of scan_criteria: a key outside the recognized set is skipped
\* (continue) instead of raising
RECURSIVE ScanKeysLenient(_, _, _)
ScanKeysLenient(cat, criteria, results) ==
    IF criteria = << >> THEN [err |-> NoError, results |-> results]
    ELSE IF Head(criteria).key \notin Recognized
         THEN ScanKeysLenient(cat, Tail(criteria), results)
         ELSE LET inner == ScanValues(cat, Head(criteria).key,
                                      Head(criteria).values, results) IN
              IF inner.err # NoError THEN inner
              ELSE ScanKeysLenient(cat, Tail(criteria), inner.results)

scan_criteria_lenient(cat, criteria) == ScanKeysLenient(cat, criteria, << >>)

scan_criteria(cat, criteria) == ScanKeys(cat, criteria, << >>)

-----------------------------------------------------------------------------
(* clean_db: [raised, store].  job["timestamp"] raises KeyError on a job   *)
(* dict without that key; the deletions come after the whole scan.         *)

\* mutant of clean_db: the age is read from "queued_timestamp" and the
\* comparison is the wrong way round
clean_db_hasty(store, t) ==
    LET to_delete == {j \in DOMAIN store :
                          t - store[j]["queued_timestamp"] < RetentionWindow}
    IN  [raised |-> FALSE,
         store |-> [j \in DOMAIN store \ to_delete |-> store[j]]]

clean_db(store, t) ==
    IF \E j \in DOMAIN store : "timestamp" \notin DOMAIN store[j]
    THEN [raised |-> TRUE, store |-> store]
    ELSE LET to_delete == {j \in DOMAIN store :
                               t - store[j]["timestamp"] > RetentionWindow}
         IN  [raised |-> FALSE,
              store |-> [j \in DOMAIN store \ to_delete |-> store[j]]]

\* mutant of get_job_status: a job without a result counts as missing
\* (if not job or not job["result"])
get_job_status_needs_result(store, job_id) ==
    IF job_id \notin DOMAIN store THEN NotFound
    ELSE IF store[job_id].result = None THEN NotFound
    ELSE Ok(store[job_id])

\* get_job_status: the job dict, or the 404
get_job_status(store, job_id) ==
    IF job_id \notin DOMAIN store THEN NotFound
    ELSE IF ~Truthy(store[job_id]) THEN NotFound
    ELSE Ok(store[job_id])

\* mutant of new_job: the result starts as an empty list
new_job_empty_result(t) ==
    [status |-> "pending", result |-> List(<< >>), queued_timestamp |-> t]

\* the job dict search_tools_post stores
new_job(t) == [status |-> "pending", result |-> None, queued_timestamp |-> t]

\* mutant of store_insert: the store is replaced by one holding the new job
store_insert_alone(store, job_id, job) == (job_id :> job)

\* JOB_STORE[job_id] = {...}
store_insert(store, job_id, job) ==
    [j \in DOMAIN store \cup {job_id} |-> IF j = job_id THEN job ELSE store[j]]

\* mutant of fresh_id: the id of an earlier job comes back
reused_id(used) == CHOOSE i \in JobIds : \A k \in JobIds : i <= k

\* str(uuid.uuid4()): an id no job has had
fresh_id(used) == CHOOSE i \in JobIds \ used : \A k \in JobIds \ used : i <= k

-----------------------------------------------------------------------------
(* The server starts to accept requests: the store is empty, and           *)
(* periodic_housekeeping, created when jobs.py is imported, has made its   *)
(* first pass over the empty store and sleeps for the interval.            *)
Init ==
    /\ JOB_STORE = << >>
    /\ tasks = << >>
    /\ hk = [pc |-> "sleeping", wake_at |-> HousekeepingInterval]
    /\ now = 0
    /\ ticks = 0
    /\ catalog \in Catalogs
    /\ returned = << >>
    /\ seen = NoRead
    /\ lookup = NoLookup

\* search_tools_post (tools.py:104-113)
search_tools_post(payload) ==
    /\ DOMAIN returned # JobIds
    /\ LET job_id == fresh_id(DOMAIN returned) IN
        /\ JOB_STORE' = store_insert(JOB_STORE, job_id, new_job(now))
        /\ tasks' = SetItem(tasks, job_id,
                            [pc |-> "queued", criteria |-> payload,
                             results |-> << >>, err |-> NoError])
        /\ returned' = SetItem(returned, job_id, now)
    /\ UNCHANGED <<hk, now, ticks, catalog, seen, lookup>>

\* _process_search_job, lines 116-123
process_scan(job_id) ==
    /\ job_id \in DOMAIN tasks
    /\ tasks[job_id].pc = "queued"
    /\ LET r == scan_criteria(catalog, tasks[job_id].criteria) IN
        tasks' = [tasks EXCEPT ![job_id] =
                    IF r.err # NoError
                    THEN [@ EXCEPT !.pc = "raised", !.err = r.err]
                    ELSE [@ EXCEPT !.pc = "set_status", !.results = r.results]]
    /\ UNCHANGED <<JOB_STORE, hk, now, ticks, catalog, returned, seen, lookup>>

\* mutant of store_write: the field is written into every job of the store
store_write_all(job_id, at, field, value, next) ==
    /\ job_id \in DOMAIN tasks
    /\ tasks[job_id].pc = at
    /\ JOB_STORE' = [k \in DOMAIN JOB_STORE |->
                        SetItem(JOB_STORE[k], field, value)]
    /\ tasks' = [tasks EXCEPT ![job_id].pc = next]
    /\ UNCHANGED <<hk, now, ticks, catalog, returned, seen, lookup>>

\* one of the three writes JOB_STORE[job_id][field] = value (lines 125-127);
\* JOB_STORE[job_id] raises KeyError when the id is not in the store
store_write(job_id, at, field, value, next) ==
    /\ job_id \in DOMAIN tasks
    /\ tasks[job_id].pc = at
    /\ IF job_id \in DOMAIN JOB_STORE
       THEN /\ JOB_STORE' = [JOB_STORE EXCEPT
                                ![job_id] = SetItem(@, field, value)]
            /\ tasks' = [tasks EXCEPT ![job_id].pc = next]
       ELSE /\ tasks' = [tasks EXCEPT ![job_id].pc = "raised",
                                      ![job_id].err = "KeyError"]
            /\ UNCHANGED JOB_STORE
    /\ UNCHANGED <<hk, now, ticks, catalog, returned, seen, lookup>>

\* mutant of set_status: the first write is the one of the result
set_status_result_first(job_id) ==
    /\ job_id \in DOMAIN tasks
    /\ store_write(job_id, "set_status", "result",
                   List(tasks[job_id].results), "set_completed")

\* tools.py:125
set_status(job_id) ==
    store_write(job_id, "set_status", "status", "completed", "set_completed")

\* mutant of set_completed_timestamp: the time goes to the queued timestamp
set_completed_timestamp_over_queued(job_id) ==
    store_write(job_id, "set_completed", "queued_timestamp", now, "set_result")

\* tools.py:126
set_completed_timestamp(job_id) ==
    store_write(job_id, "set_completed", "completed_timestamp", now, "set_result")

\* tools.py:127
set_result(job_id) ==
    /\ job_id \in DOMAIN tasks
    /\ store_write(job_id, "set_result", "result",
                   List(tasks[job_id].results), "done")

\* GET /jobs/{job_id}: a client reads the status and keeps what it was told
read_status(job_id) ==
    /\ LET job == get_job_status(JOB_STORE, job_id) IN
        seen' = IF job # NotFound /\ job.body.status = "completed"
                THEN [job_id |-> job_id, result |-> job.body.result]
                ELSE seen
    /\ UNCHANGED <<JOB_STORE, tasks, hk, now, ticks, catalog, returned, lookup>>

\* periodic_housekeeping: one wake of the loop (jobs.py:24-26)
housekeeping_wake ==
    /\ hk.pc = "sleeping"
    /\ now >= hk.wake_at
    /\ LET r == clean_db(JOB_STORE, now) IN
        IF r.raised
        THEN /\ hk' = [hk EXCEPT !.pc = "crashed"]
             /\ UNCHANGED JOB_STORE
        ELSE /\ hk' = [hk EXCEPT !.wake_at = now + HousekeepingInterval]
             /\ JOB_STORE' = r.store
    /\ UNCHANGED <<tasks, now, ticks, catalog, returned, seen, lookup>>

\* time passes, never past the moment a sleeping housekeeping task is due:
\* by a housekeeping interval, at most MaxTicks times, or by a retention
\* window, once
advance(d) ==
    /\ IF d = RetentionWindow THEN now < RetentionWindow ELSE ticks < MaxTicks
    /\ hk.pc = "sleeping" => now + d <= hk.wake_at
    /\ now' = now + d
    /\ ticks' = IF d = RetentionWindow THEN ticks ELSE ticks + 1
    /\ UNCHANGED <<JOB_STORE, tasks, hk, catalog, returned, seen, lookup>>

Next ==
    \/ \E p \in Payloads : search_tools_post(p)
    \/ \E j \in JobIds : process_scan(j)
    \/ \E j \in JobIds : set_status(j)
    \/ \E j \in JobIds : set_completed_timestamp(j)
    \/ \E j \in JobIds : set_result(j)
    \/ housekeeping_wake
    \/ \E d \in TimeSteps : advance(d)

Spec == Init /\ [][Next]_vars

\* the same system with its status reads recorded
NextReads ==
    \/ Next
    \/ \E j \in JobIds : read_status(j)

SpecReads == Init /\ [][NextReads]_vars

\* GET /input/{ext} (tools.py:175-195): the request and what it returns
get_tools_by_input_extension(ext) ==
    /\ LET r == MatchesFrom(iter_tool_data(catalog), norm_ext(ext)) IN
        lookup' = [asked |-> TRUE, ext |-> ext, err |-> r.err,
                   matches |-> r.matches]
    /\ UNCHANGED <<JOB_STORE, tasks, hk, now, ticks, catalog, returned, seen>>

\* the server with a catalog whose records declare input file types
InitInput ==
    /\ JOB_STORE = << >>
    /\ tasks = << >>
    /\ hk = [pc |-> "sleeping", wake_at |-> HousekeepingInterval]
    /\ now = 0
    /\ ticks = 0
    /\ catalog \in InputCatalogs
    /\ returned = << >>
    /\ seen = NoRead
    /\ lookup = NoLookup

NextInput == \E ext \in Exts : get_tools_by_input_extension(ext)

SpecInput == InitInput /\ [][NextInput]_vars

-----------------------------------------------------------------------------
(* What a state says about a job *)

\* the job dict as search_tools_post left it
AsCreated(j) ==
    [status |-> "pending", result |-> None, queued_timestamp |-> returned[j]]

\* the retention window of job j is over
Expired(j) == now - returned[j] > RetentionWindow

\* the housekeeping task is due to run and has not run yet
WakeDue == hk.pc = "sleeping" /\ now >= hk.wake_at

HasUnsupportedKey(criteria) ==
    \E i \in DOMAIN criteria : criteria[i].key \notin Recognized

\* the (key, value) pairs of a payload, keys in their order, then values
RECURSIVE Pairs(_)
Pairs(criteria) ==
    IF criteria = << >> THEN << >>
    ELSE [i \in DOMAIN Head(criteria).values |->
             [key |-> Head(criteria).key, value |-> Head(criteria).values[i]]]
         \o Pairs(Tail(criteria))

\* some parsed catalog record matches the pair
HasMatch(pair) ==
    \E n \in DOMAIN catalog :
        /\ catalog[n].kind = "object"
        /\ record_matches(catalog[n].data, pair.key, pair.value)

-----------------------------------------------------------------------------
(* C1: in every reachable state, the states between the processor's        *)
(* writes included, a job's result is present (not None) if and only if    *)
(* its status is completed.                                                *)
ResultIffCompleted ==
    \A j \in DOMAIN JOB_STORE :
        (JOB_STORE[j].result # None) <=> (JOB_STORE[j].status = "completed")

(* C2: a job returned at time T is absent from a status read at any time   *)
(* >= T + 3600 + 60 (read once the housekeeping wake due by then has run). *)
EvictedAfterRetention ==
    \A j \in DOMAIN returned :
        (now >= returned[j] + RetentionWindow + HousekeepingInterval /\ ~WakeDue)
            => get_job_status(JOB_STORE, j) = NotFound

(* C3: the housekeeping loop never stops: after every wake, whatever the   *)
(* store holds, the task is sleeping until its next wake.                  *)
HousekeepingKeepsTicking == hk.pc = "sleeping"

(* C5: a returned job that has not expired is found by a status read, and  *)
(* until its status is completed the read reports pending with no result.  *)
PendingReadableUntilCompleted ==
    \A j \in DOMAIN returned :
        LET r == get_job_status(JOB_STORE, j) IN
        /\ ~Expired(j) => r.code = "200"
        /\ (r.code = "200" /\ r.body.status # "completed")
               => (r.body.status = "pending" /\ r.body.result = None)

\* a job is read as pending while its task is past the scan, not yet committed
PendingReadWitness ==
    \E j \in DOMAIN returned :
        /\ tasks[j].pc = "set_status"
        /\ ~Expired(j)
        /\ get_job_status(JOB_STORE, j) = Ok(AsCreated(j))

(* C6: a job whose criteria hold a key outside {toolURI, typeURI}, at any  *)
(* position, is never completed and gets no partial result: while it is in *)
(* the store its record is exactly as created.                             *)
UnsupportedKeyLeavesJobAsCreated ==
    \A j \in DOMAIN tasks :
        HasUnsupportedKey(tasks[j].criteria)
            => /\ tasks[j].pc \in {"queued", "raised"}
               /\ j \in DOMAIN JOB_STORE => JOB_STORE[j] = AsCreated(j)

\* the task of a job with a bad key after a matching recognized key has ended
UnsupportedKeyWitness ==
    \E j \in DOMAIN tasks :
        /\ Len(tasks[j].criteria) = 2
        /\ tasks[j].criteria[1].key \in Recognized
        /\ HasMatch(Pairs(tasks[j].criteria)[1])
        /\ tasks[j].criteria[2].key \notin Recognized
        /\ tasks[j].pc = "raised"
        /\ tasks[j].err = "ValueError"
        /\ get_job_status(JOB_STORE, j) = Ok(AsCreated(j))

(* C7: a job returned at time T is in the store, in the state its task     *)
(* last committed, at every time strictly before T + 3600, whatever other  *)
(* submits, commits and housekeeping wakes have happened.                  *)
UnexpiredJobPresent ==
    \A j \in DOMAIN returned :
        now < returned[j] + RetentionWindow
            => /\ j \in DOMAIN JOB_STORE
               /\ JOB_STORE[j].queued_timestamp = returned[j]
               /\ tasks[j].pc \in {"queued", "set_status"}
                      => JOB_STORE[j] = AsCreated(j)
               /\ tasks[j].pc = "done"
                      => /\ JOB_STORE[j].status = "completed"
                         /\ JOB_STORE[j].result = List(tasks[j].results)

\* housekeeping has woken over a store holding two unexpired jobs, one of
\* them committed
UnexpiredJobWitness ==
    /\ hk.pc = "crashed"
    /\ \E j, k \in DOMAIN JOB_STORE :
        /\ j # k
        /\ now < returned[j] + RetentionWindow
        /\ now < returned[k] + RetentionWindow
        /\ tasks[j].pc = "done"
        /\ tasks[k].pc = "queued"

(* C8: every job whose criteria hold recognized keys only reaches status   *)
(* completed.  The task that raised takes no further step, so this needs   *)
(* that no such task ends by raising.                                      *)
RecognizedCriteriaComplete ==
    \A j \in DOMAIN tasks :
        ~HasUnsupportedKey(tasks[j].criteria) => tasks[j].pc # "raised"

(* C9: the result of a completed job holds one match-summary for each      *)
(* (key, value) pair of the criteria that has a catalog match and none for *)
(* the others, in the order of the criteria.                               *)
ResultFollowsCriteria ==
    \A j \in DOMAIN JOB_STORE :
        JOB_STORE[j].result # None
            => LET matched == SelectSeq(Pairs(tasks[j].criteria), HasMatch)
                   items == JOB_STORE[j].result.items
               IN  /\ Len(items) = Len(matched)
                   /\ \A i \in DOMAIN items :
                        /\ DOMAIN items[i] =
                               {matched[i].key, "toolLabel", "toolDescription"}
                        /\ items[i][matched[i].key] = matched[i].value

\* a completed job of two keys, one of its four values without a match
ResultOrderWitness ==
    \E j \in DOMAIN JOB_STORE :
        /\ JOB_STORE[j].result # None
        /\ Len(Pairs(tasks[j].criteria)) = 4
        /\ Len(JOB_STORE[j].result.items) = 3
        /\ tasks[j].criteria[1].key # tasks[j].criteria[2].key

(* C10: two status reads of one job that both report completed return the  *)
(* same result: what the last such read returned is what a read returns    *)
(* now, if it reports completed.                                           *)
CompletedReadsAgree ==
    seen # NoRead
        => LET r == get_job_status(JOB_STORE, seen.job_id) IN
           (r.code = "200" /\ r.body.status = "completed")
               => r.body.result = seen.result

(* C11: a status read answers 404 exactly when the id is not a key of the  *)
(* store, and answers the job's current record for every id that is a key, *)
(* whatever the job's status.                                              *)
NotFoundIffAbsent ==
    \A j \in JobIds \cup {0} :
        LET r == get_job_status(JOB_STORE, j) IN
        /\ r = NotFound <=> j \notin DOMAIN JOB_STORE
        /\ j \in DOMAIN JOB_STORE => r = Ok(JOB_STORE[j])

\* a pending job and a completed job are both read; an id never given out
\* is not found
NotFoundWitness ==
    /\ get_job_status(JOB_STORE, 0) = NotFound
    /\ \E j, k \in DOMAIN JOB_STORE :
        /\ get_job_status(JOB_STORE, j).body.status = "pending"
        /\ get_job_status(JOB_STORE, k).body.status = "completed"

\* the positions of a task at which its next step is a store write
CommitPcs == {"set_status", "set_completed", "set_result"}

\* this step is a store write of the task of job j
CommitStep(j) ==
    /\ j \in DOMAIN tasks
    /\ tasks[j].pc \in CommitPcs
    /\ tasks'[j].pc # tasks[j].pc

(* C12: a processor commit for job j changes only the record of job j:     *)
(* every other job of the store keeps its status, result and timestamps.   *)
CommitTouchesOnlyItsJob ==
    [][\A j \in JobIds :
         CommitStep(j)
             => \A k \in DOMAIN JOB_STORE \ {j} :
                    /\ k \in DOMAIN JOB_STORE'
                    /\ JOB_STORE'[k] = JOB_STORE[k]]_vars

\* two jobs were processed side by side: one is committed in full while the
\* other, submitted before the first commit ended, is still as created
IndependentJobsWitness ==
    \E j, k \in DOMAIN JOB_STORE :
        /\ j # k
        /\ tasks[j].pc = "done"
        /\ JOB_STORE[j].result = List(tasks[j].results)
        /\ tasks[k].pc = "set_status"
        /\ JOB_STORE[k] = AsCreated(k)

(* C13: a job is committed at most once: its status never goes back from   *)
(* completed to pending, it becomes completed only by the first write of   *)
(* its own task, a result once attached is never replaced or removed, and  *)
(* a task that has ended does nothing more.                                *)
CommittedOnce ==
    [][\A j \in DOMAIN JOB_STORE :
         j \in DOMAIN JOB_STORE'
             => /\ JOB_STORE[j].status = "completed"
                    => JOB_STORE'[j].status = "completed"
                /\ (JOB_STORE[j].status = "pending"
                        /\ JOB_STORE'[j].status = "completed")
                    => tasks[j].pc = "set_status"
                /\ JOB_STORE[j].result # None
                    => JOB_STORE'[j].result = JOB_STORE[j].result
                /\ tasks[j].pc \in {"done", "raised"}
                    => tasks'[j] = tasks[j]]_vars

\* a job has been committed in full and a second job has been submitted since
CommittedOnceWitness ==
    \E j, k \in DOMAIN JOB_STORE :
        /\ j < k
        /\ tasks[j].pc = "done"
        /\ JOB_STORE[j].status = "completed"
        /\ JOB_STORE[j].result = List(tasks[j].results)
        /\ returned[k] > returned[j]

(* C14: a catalog entry that cannot be read as a structured record never   *)
(* aborts a job: no task ends with the error raised by reading a field of  *)
(* such an entry, whatever the catalog holds.                              *)
MalformedRecordNeverAborts ==
    \A j \in DOMAIN tasks :
        ~(tasks[j].pc = "raised" /\ tasks[j].err = "AttributeError")

\* the values looked up: the ones the catalog files hold and one they do not
QueryValues == {"t1", "t2", "tX", "y1", "y2"}

\* the names of the files that hold an object matching the lookup
MatchingFiles(cat, match_type, match_value) ==
    {n \in DOMAIN cat :
        /\ cat[n].kind = "object"
        /\ record_matches(cat[n].data, match_type, match_value)}

\* the summary of the lookup made from the file named n
SummaryOf(cat, n, match_type, match_value) ==
    LET props == IF "toolProperties" \in DOMAIN cat[n].data
                 THEN cat[n].data.toolProperties ELSE EmptyDict
    IN  (match_type :> match_value)
            @@ [toolLabel |-> IF "toolLabel" \in DOMAIN props
                              THEN props.toolLabel ELSE "",
                toolDescription |-> IF "toolDescription" \in DOMAIN props
                                    THEN props.toolDescription ELSE ""]

\* the least of a non-empty set of file names
FirstFile(files) == CHOOSE n \in files : \A m \in files : n <= m

\* the kind of lookup a summary comes from: its first key
KindOf(summary) == IF "toolURI" \in DOMAIN summary THEN "toolURI" ELSE "typeURI"

(* C15: whenever find_tool_sync returns, it returns the summary built from *)
(* the matching record with the least file name, with the label and the    *)
(* description of that record ("" when the record has none), or the empty  *)
(* dict when no record matches.  The catalog never changes, so the lookups *)
(* of every kind and value are compared where the server starts; after     *)
(* that, every summary a task has collected is compared.                   *)
FirstMatchWins ==
    /\ tasks = << >>
        => \A match_type \in Recognized : \A match_value \in QueryValues :
            LET found == find_tool_sync(catalog, match_type, match_value)
                files == MatchingFiles(catalog, match_type, match_value)
            IN  found.tool =
                    IF found.err # NoError \/ files = {} THEN EmptyDict
                    ELSE SummaryOf(catalog, FirstFile(files), match_type,
                                   match_value)
    /\ \A j \in DOMAIN tasks : \A i \in DOMAIN tasks[j].results :
        LET summary == tasks[j].results[i]
            files == MatchingFiles(catalog, KindOf(summary),
                                   summary[KindOf(summary)])
        IN  /\ files # {}
            /\ summary = SummaryOf(catalog, FirstFile(files), KindOf(summary),
                                   summary[KindOf(summary)])

\* a job is committed whose result holds the summary of t1 from the first
\* file (label A, description B) although a later file declares t1 as well
\* (label Z, no description)
FirstMatchWitness ==
    \E j \in DOMAIN JOB_STORE :
        /\ tasks[j].pc = "done"
        /\ \E i \in DOMAIN tasks[j].results :
            tasks[j].results[i] = [toolURI |-> "t1", toolLabel |-> "A",
                                   toolDescription |-> "B"]
        /\ JOB_STORE[j].result = List(tasks[j].results)
        /\ \E n, m \in MatchingFiles(catalog, "toolURI", "t1") : n < m

\* this step is one of the housekeeping task
SweepStep == hk' # hk

(* C16: an id leaves the job store only in a step of the housekeeping      *)
(* sweep: a submit, a step of a job's task (a write, or the raise that     *)
(* ends it) and the passing of time keep every id of the store.            *)
OnlySweepDeletes ==
    [][(\E j \in DOMAIN JOB_STORE : j \notin DOMAIN JOB_STORE')
           => SweepStep]_vars

\* submits and tasks have acted and every job is still there: the first
\* job is committed, a later one was submitted after it and its task raised
NothingElseDeletesWitness ==
    /\ DOMAIN JOB_STORE = DOMAIN returned
    /\ \E j, k \in DOMAIN JOB_STORE :
        /\ j < k
        /\ tasks[j].pc = "done"
        /\ tasks[k].pc = "raised"
        /\ get_job_status(JOB_STORE, j) = Ok(JOB_STORE[j])
        /\ get_job_status(JOB_STORE, k) = Ok(AsCreated(k))

(* C17: the queued timestamp of a job in the store is the time of its      *)
(* submit, whatever has happened since, and a job submitted later has a    *)
(* queued timestamp that is not smaller.                                   *)
QueuedTimestampFixed ==
    /\ \A j \in DOMAIN JOB_STORE :
        JOB_STORE[j].queued_timestamp = returned[j]
    /\ \A j, k \in DOMAIN JOB_STORE :
        j < k => JOB_STORE[j].queued_timestamp <= JOB_STORE[k].queued_timestamp

\* a job committed at a later time than its submit, the housekeeping task
\* having swept since, and a second job submitted after it
QueuedTimestampWitness ==
    \E j, k \in DOMAIN JOB_STORE :
        /\ j < k
        /\ tasks[j].pc = "done"
        /\ JOB_STORE[j].completed_timestamp > JOB_STORE[j].queued_timestamp
        /\ JOB_STORE[k].queued_timestamp > JOB_STORE[j].queued_timestamp
        /\ hk.pc = "crashed"

(* C20: a job whose result is present has the status completed and a       *)
(* completed timestamp: no pending job shows a result.                     *)
ResultImpliesCompleted ==
    \A j \in DOMAIN JOB_STORE :
        JOB_STORE[j].result # None
            => /\ JOB_STORE[j].status = "completed"
               /\ "completed_timestamp" \in DOMAIN JOB_STORE[j]

\* a job has its result while another job has made the first of its three
\* writes only
ResultPresentWitness ==
    \E j, k \in DOMAIN JOB_STORE :
        /\ JOB_STORE[j].result # None
        /\ JOB_STORE[j].result = List(tasks[j].results)
        /\ tasks[k].pc = "set_completed"
        /\ JOB_STORE[k].result = None

\* the normal form the claim describes: lower case, one leading '.' removed
strip_one(s) == IF s # << >> /\ Head(s) = "." THEN Tail(s) ELSE s

\* the record declares an input whose extension equals ext in that form
\* (an input that declares no extension counts as declaring the empty one)
DeclaresInput(data, ext) ==
    \E i \in DOMAIN inputs_of(data) :
        LET item == inputs_of(data)[i]
            declared == IF item.isdict /\ "extension" \in DOMAIN item.d
                        THEN item.d.extension ELSE << >>
        IN  strip_one(lower(declared)) = strip_one(lower(ext))

\* how many summaries of the response are for the tool uri
SummariesFor(uri) ==
    Cardinality({i \in DOMAIN lookup.matches : lookup.matches[i].toolURI = uri})

(* C18: a response to an input-extension query holds one summary for each  *)
(* record that declares an input whose extension equals the query after    *)
(* both are put in lower case and one leading '.' is removed from each,    *)
(* however many inputs of the record match, and none for any other record. *)
InputExtensionMatch ==
    (lookup.asked /\ lookup.err = NoError)
        => \A n \in DOMAIN catalog :
            (catalog[n].kind = "object" /\ "toolURI" \in DOMAIN catalog[n].data)
                => SummariesFor(catalog[n].data.toolURI)
                    = IF DeclaresInput(catalog[n].data, lookup.ext)
                      THEN 1 ELSE 0

====
